---------------------------- MODULE Spec2Model ----------------------------
(***************************************************************************)
(* A model of src/js/core.js: the RPGEngine frame loop, its entity         *)
(* registry and scenes, the EventBus that carries its notifications, and   *)
(* the Character (damage, healing, experience, levels, status effects)     *)
(* with the CombatSystem that attacks it.                                  *)
(*                                                                         *)
(* Every method of the source is an operator from a world record w (all    *)
(* the mutable fields of the engine, its scenes, its entities and its      *)
(* bus) to the world after the call.  Calls in JavaScript are synchronous  *)
(* and nest: a listener invoked by emit may itself call emit, off or       *)
(* stop, so the operators call each other the way the methods do.  A       *)
(* raised exception is the field w.fault: it is set where the exception    *)
(* is thrown, every caller stops at once when it sees it, and the only     *)
(* place that clears it is the try/catch of EventBus.emit.                 *)
(*                                                                         *)
(* Date.now() is an integer of milliseconds.  deltaTime is kept as the     *)
(* number ms of milliseconds it was computed from and stands for the       *)
(* double ms / 1000 (Seconds(ms)), so the cap 0.1 of gameLoop is           *)
(* DeltaCap = 100.  gameTime and the durations of status effects, which    *)
(* the source adds to and subtracts from, are doubles, with the rounding   *)
(* of IEEE 754 binary64 arithmetic.                                        *)
(***************************************************************************)
EXTENDS Integers, Sequences, FiniteSets

\* ------------------------------------------------------------------ bounds
MaxSubs == 2            \* subscriptions held by the bus at one time
MaxFrames == 2          \* completed frames
MaxTime == 250          \* last wall-clock reading, ms after construction
MaxSceneEntities == 1   \* length of one scene's entity list
MaxExperience == 500    \* experience a character gathers
MaxLevel == 6           \* level reached by calling levelUp directly
MaxEffects == 2         \* status effects a character carries at one time

\* ------------------------------------------------------- program constants
maxEntities == 2        \* config.maxEntities handed to the constructor
DeltaCap == 100         \* the cap 0.1 s of gameLoop, in ms

\* ----------------------------------------------------------------- doubles
\* A JavaScript number that is not an integer of the model: a sign and a
\* magnitude, the magnitude a natural number of units of 2^-64 written in
\* limbs of LimbBits bits, lowest limb first and without leading zero
\* limbs (<< >> is 0).  Every double of at least 2^-12 in magnitude is a
\* whole number of such units, and so are the sums and differences of
\* such doubles; zero has no sign (the source only compares with > 0).
LimbBits == 16
Base == 2^LimbBits
FractionLimbs == 4      \* limbs below the binary point
GuardLimbs == 1         \* further limbs a quotient is computed to
Precision == 53         \* the bits of a binary64 significand
Signed(neg, mag) == [neg |-> neg /\ mag # << >>, mag |-> mag]
Zero == Signed(FALSE, << >>)

RECURSIVE Trim(_)
Trim(limbs) ==
  IF limbs = << >> \/ limbs[Len(limbs)] # 0 THEN limbs
  ELSE Trim(SubSeq(limbs, 1, Len(limbs) - 1))

RECURSIVE NatLimbs(_)
NatLimbs(n) == IF n = 0 THEN << >> ELSE << n % Base >> \o NatLimbs(n \div Base)

Limb(a, i) == IF i <= Len(a) THEN a[i] ELSE 0

\* a < b, from limb i down; both without leading zero limbs.
RECURSIVE MagLessFrom(_, _, _)
MagLessFrom(a, b, i) ==
  IF i = 0 THEN FALSE
  ELSE IF a[i] # b[i] THEN a[i] < b[i]
  ELSE MagLessFrom(a, b, i - 1)
MagLess(a, b) ==
  IF Len(a) # Len(b) THEN Len(a) < Len(b) ELSE MagLessFrom(a, b, Len(a))

\* a + b, from limb i up.
RECURSIVE AddFrom(_, _, _, _)
AddFrom(a, b, i, carry) ==
  IF i > Len(a) /\ i > Len(b) THEN (IF carry = 1 THEN << 1 >> ELSE << >>)
  ELSE LET sum == Limb(a, i) + Limb(b, i) + carry
       IN  << sum % Base >> \o AddFrom(a, b, i + 1, sum \div Base)
MagAdd(a, b) == AddFrom(a, b, 1, 0)

\* a - b for b <= a, from limb i up.
RECURSIVE SubFrom(_, _, _, _)
SubFrom(a, b, i, borrow) ==
  IF i > Len(a) THEN << >>
  ELSE LET diff == Limb(a, i) - Limb(b, i) - borrow
       IN  << (diff + Base) % Base >> \o SubFrom(a, b, i + 1, IF diff < 0 THEN 1 ELSE 0)
MagSub(a, b) == Trim(SubFrom(a, b, 1, 0))

\* The number of bits of a magnitude, from its highest 1 down.
BitLength(mag) ==
  IF mag = << >> THEN 0
  ELSE LimbBits * (Len(mag) - 1) +
       (CHOOSE k \in 1..LimbBits : 2^(k - 1) <= mag[Len(mag)] /\ mag[Len(mag)] < 2^k)

\* The double nearest to an exact result, ties to the even significand:
\* the drop bits below the Precision highest are rounded away.  inexact:
\* the exact result has a remainder below the lowest bit of mag.
RoundToNearest(mag, inexact) ==
  LET drop == BitLength(mag) - Precision
  IN  IF drop <= 0 THEN mag
      ELSE LET whole == drop \div LimbBits
               part == 2^(drop % LimbBits)
               halfLimb == ((drop - 1) \div LimbBits) + 1
               halfBit == 2^((drop - 1) % LimbBits)
               half == (mag[halfLimb] \div halfBit) % 2 = 1
               below == \/ inexact
                        \/ (mag[halfLimb] % halfBit) # 0
                        \/ \E i \in 1..(halfLimb - 1) : mag[i] # 0
               odd == (mag[whole + 1] \div part) % 2 = 1
               kept == [i \in 1..Len(mag) |->
                          IF i <= whole THEN 0
                          ELSE IF i = whole + 1 THEN mag[i] - (mag[i] % part)
                          ELSE mag[i]]
               unit == [i \in 1..(whole + 1) |-> IF i = whole + 1 THEN part ELSE 0]
           IN  IF half /\ (below \/ odd) THEN MagAdd(kept, unit) ELSE kept

\* The first k limbs of r / den after the binary point (r < den), lowest
\* first, and the remainder left after them.
RECURSIVE Places(_, _, _)
Places(r, den, k) ==
  IF k = 0 THEN [limbs |-> << >>, rem |-> r]
  ELSE LET rest == Places((r * Base) % den, den, k - 1)
       IN  [limbs |-> Append(rest.limbs, (r * Base) \div den), rem |-> rest.rem]

\* The double ms / 1000 (line 101), which is also the double a decimal
\* literal of ms thousandths denotes (0.1 is Seconds(100)); ms >= 0.
Seconds(ms) ==
  LET q == Places(ms % 1000, 1000, FractionLimbs + GuardLimbs)
      rounded == RoundToNearest(Trim(q.limbs \o NatLimbs(ms \div 1000)), q.rem # 0)
  IN  Signed(FALSE, SubSeq(rounded, GuardLimbs + 1, Len(rounded)))

\* a + b, a - b and a > 0 on doubles.
FAdd(a, b) ==
  IF a.neg = b.neg THEN Signed(a.neg, RoundToNearest(MagAdd(a.mag, b.mag), FALSE))
  ELSE IF MagLess(a.mag, b.mag)
       THEN Signed(b.neg, RoundToNearest(MagSub(b.mag, a.mag), FALSE))
       ELSE Signed(a.neg, RoundToNearest(MagSub(a.mag, b.mag), FALSE))
FSub(a, b) == FAdd(a, Signed(~b.neg, b.mag))
FPositive(a) == ~a.neg /\ a.mag # << >>

\* ------------------------------------------------------------------ inputs
\* Wall-clock time between two readings of Date.now(), in ms.
Elapsed == {0, 100, 250}

\* Topics.  "evt:a" and "evt:b" are application topics.
AppTopics == {"evt:a", "evt:b"}
EngineTopics == {"engine:start", "engine:stop", "engine:pause", "engine:resume",
                 "engine:update", "engine:render", "engine:sceneLoaded",
                 "entity:added", "entity:removed"}
CharacterTopics == {"character:died", "character:levelUp",
                    "character:statusEffectApplied"}
Topics == AppTopics \union EngineTopics \union CharacterTopics

\* Listener callbacks handed to on/once, by what their body does when the
\* bus invokes them for topic t:
\*   1 returns                       5 publishes "evt:b"
\*   2 throws                        6 calls engine.stop()
\*   3 calls off(t, 1), off(t, 3)
\*   4 publishes t again, the first time it runs
ListenerIds == 1..6
Behaviour(l) ==
  CASE l = 1 -> "return"
    [] l = 2 -> "throw"
    [] l = 3 -> "unsubscribe"
    [] l = 4 -> "republish"
    [] l = 5 -> "publishB"
    [] l = 6 -> "stop"

\* Scenes registered with createScene; "void" is a name never registered.
SceneNames == {"town", "arena"}
NoScene == "null"
\* "arena" is a Scene subclass whose render override throws.
SceneRender(s) == IF s = "arena" THEN "throw" ELSE "return"

\* Entities, by id, and the components each was built with (in the order of
\* addComponent).  Entity 1 is a Character, the others are plain entities.
\* upd is what the component's update does, late whether it defines
\* lateUpdate, destroy whether it defines destroy.
EntityIds == 1..3
Comp(n, u, en, la, de) ==
  [name |-> n, upd |-> u, enabled |-> en, late |-> la, destroy |-> de]
Components(e) ==
  CASE e = 1 -> << Comp("move", "return", TRUE, TRUE, TRUE),
                   Comp("sleep", "return", FALSE, TRUE, TRUE),
                   Comp("ai", "return", TRUE, FALSE, FALSE) >>
    [] e = 2 -> << Comp("quit", "stop", TRUE, FALSE, FALSE),
                   Comp("anim", "return", TRUE, TRUE, TRUE) >>
    [] OTHER -> << Comp("trap", "throw", TRUE, TRUE, FALSE),
                   Comp("tail", "return", TRUE, TRUE, TRUE) >>
CharacterId == 1
IsCharacter(e) == e = CharacterId

\* The config handed to new Character(id, name, config); 0 stands for a
\* property the config does not have.
Config(lv, xp, hp, mhp, mp, mmp) ==
  [level |-> lv, experience |-> xp, health |-> hp, maxHealth |-> mhp,
   mana |-> mp, maxMana |-> mmp]
NoConfig == Config(0, 0, 0, 0, 0, 0)
Configs == {NoConfig, Config(3, 0, 0, 0, 0, 0), Config(0, 0, 0, 0, 20, 0)}

\* Amounts handed to takeDamage, heal and addExperience, and the status
\* effects handed to addStatusEffect: object literals such as
\* {name: 'poison', duration: 0.15}.  The caller keeps the objects it made
\* at the references EffectRefs (NoEffect: none made there yet) and may
\* hand one of them to addStatusEffect again.
DamageAmounts == {0, 30, 100}
HealAmounts == {0, 30}
ExperienceAmounts == {0, 30, 250}
Effect(n, d) == [name |-> n, duration |-> d]
Effects == {Effect("poison", Seconds(150)), Effect("haste", Seconds(400))}
EffectNames == {"poison", "haste"}
EffectRefs == 1..MaxEffects
NoEffect == Effect("", Zero)
\* The argument of bus.clear() called with no topic.
NoTopic == ""

\* Attackers handed to CombatSystem.performAttack: the dexterity, the base
\* attack and the attack of the item in the main hand (0: the slot is
\* empty).  The defender is the Character, with the default dexterity and
\* defense and no equipment.
Attacker(dex, att, weapon) == [dexterity |-> dex, attack |-> att, mainHand |-> weapon]
Attackers == {Attacker(10, 5, 0), Attacker(60, 5, 50), Attacker(10, 1, 0)}
\* The values Math.random() returns, in hundredths.
Draws == {0, 40, 70, 99}

\* ------------------------------------------------------------------- state
VARIABLES
  isRunning, isPaused, deltaTime, gameTime, frameCount, lastFrameTime,
  entities,        \* RPGEngine.entities: the ids, in Map insertion order
  currentScene,    \* RPGEngine.currentScene: a scene name or NoScene
  sceneEntities,   \* Scene.entities of each registered scene
  isLoaded,        \* Scene.isLoaded of each registered scene
  engineRef,       \* Entity.engine of each entity: set (TRUE) or null
  active,          \* Entity.active of each entity
  components,      \* Entity.components of each entity, in Map insertion order
  level, experience, health, maxHealth, mana, maxMana, isAlive,
                   \* the fields of the Character (entity 1)
  statusEffects,   \* Character.statusEffects: references to effect objects
  effectObjects,   \* the effect object at each reference: name and duration
  scheduled,       \* frame callbacks the host holds (requestAnimationFrame)
  events,          \* EventBus.events: topic -> sequence of subscriptions
  republished,     \* the listeners of kind "republish" that already ran
  onceCalls,       \* history: how often each once-wrapper ran its callback
  calls,           \* history: what the last call did, in order
  lastOp           \* history: the last call and what it returned

vars == << isRunning, isPaused, deltaTime, gameTime, frameCount, lastFrameTime,
           entities, currentScene, sceneEntities, isLoaded, engineRef, active,
           components,
           level, experience, health, maxHealth, mana, maxMana, isAlive,
           statusEffects, effectObjects, scheduled, events, republished,
           onceCalls, calls, lastOp >>

\* The world a call runs in; fault, depth and ret (the value the outermost
\* call returns) exist only during a call.
World ==
  [ isRunning |-> isRunning, isPaused |-> isPaused, deltaTime |-> deltaTime,
    gameTime |-> gameTime, frameCount |-> frameCount,
    lastFrameTime |-> lastFrameTime, entities |-> entities,
    currentScene |-> currentScene, sceneEntities |-> sceneEntities,
    isLoaded |-> isLoaded, engineRef |-> engineRef, active |-> active,
    components |-> components,
    level |-> level, experience |-> experience, health |-> health,
    maxHealth |-> maxHealth, mana |-> mana, maxMana |-> maxMana,
    isAlive |-> isAlive, statusEffects |-> statusEffects,
    effectObjects |-> effectObjects,
    scheduled |-> scheduled, events |-> events, republished |-> republished,
    onceCalls |-> onceCalls, calls |-> << >>, fault |-> FALSE, depth |-> 0,
    ret |-> "undefined" ]

\* One entry of the history of a call: what was called (ev), on what, at
\* which nesting depth of emit.  An "emit" entry carries in subs the array
\* of subscriptions emit read when it began, and its payload in who (the
\* number of the payload) and via (the name of the payload).
Ev(ev, what, who, wid, via, depth) ==
  [ev |-> ev, what |-> what, who |-> who, wid |-> wid, via |-> via,
   depth |-> depth, subs |-> << >>]
Log(w, e) == [w EXCEPT !.calls = Append(@, e)]
Throw(w) == [w EXCEPT !.fault = TRUE]

Range(s) == {s[i] : i \in 1..Len(s)}

\* The data of an event, as far as the engine fills it: the sceneName of
\* engine:sceneLoaded, the entity (its id) of entity:added and
\* entity:removed, the delta of engine:update.
Data(name, id) == [name |-> name, id |-> id]
NoData == Data("", 0)

\* ---------------------------------------------------------------- EventBus
\* A subscription: the callback cb, and wid > 0 when the function stored is
\* the wrapper that once() built around cb (wid names the wrapper).
Sub(cb, wid) == [cb |-> cb, wid |-> wid]

RECURSIVE emit(_, _, _)
RECURSIVE forEachListener(_, _, _, _)

\* EventBus.on: push onto the topic's array.
on(w, eventName, sub) ==
  [w EXCEPT !.events[eventName] = Append(@, sub)]

\* EventBus.off: the topic's array is replaced by a filtered copy.
off(w, eventName, sub) ==
  [w EXCEPT !.events[eventName] = SelectSeq(@, LAMBDA s : s # sub)]

\* EventBus.clear(eventName): one topic, or every topic when there is no
\* eventName.
clear(w, eventName) ==
  IF eventName # NoTopic
  THEN [w EXCEPT !.events[eventName] = << >>]
  ELSE [w EXCEPT !.events = [t \in Topics |-> << >>]]

\* RPGEngine.stop.
stop(w) == emit([w EXCEPT !.isRunning = FALSE], "engine:stop", NoData)

\* An exception skips the rest of the function it passes through: F is
\* what the caller does next with the world r the callee left.
Unless(r, F(_)) == IF r.fault THEN r ELSE F(r)

\* The body of a listener callback, invoked for eventName.
callback(w, eventName, l) ==
  CASE Behaviour(l) = "return" -> w
    [] Behaviour(l) = "throw" -> Throw(w)
    [] Behaviour(l) = "unsubscribe" ->
         off(off(w, eventName, Sub(1, 0)), eventName, Sub(l, 0))
    [] Behaviour(l) = "republish" ->
         IF l \in w.republished THEN w
         ELSE emit([w EXCEPT !.republished = @ \union {l}], eventName, NoData)
    [] Behaviour(l) = "publishB" -> emit(w, "evt:b", NoData)
    [] Behaviour(l) = "stop" -> stop(w)

\* The wrapper that once stores (lines 634-637): callback(data), then
\* off(eventName, wrappedCallback).
wrappedCallback(w, eventName, sub) ==
  Unless(callback([w EXCEPT !.onceCalls[sub.wid] = @ + 1], eventName, sub.cb),
         LAMBDA r : off(r, eventName, sub))

\* The function stored in the array is called: the callback itself, or the
\* wrapper of once.
invoke(w, eventName, sub) ==
  IF sub.wid = 0
  THEN callback(Log(w, Ev("listener", eventName, sub.cb, 0, "bus", w.depth)),
                eventName, sub.cb)
  ELSE wrappedCallback(Log(w, Ev("listener", eventName, sub.cb, sub.wid, "bus", w.depth)),
                       eventName, sub)

\* The catch of emit (lines 653-655): the exception is logged and dropped.
TryCatchRethrow(w) == w
TryCatch(w) == [w EXCEPT !.fault = FALSE]

\* The array forEach walks: the one read from this.events[eventName] when
\* emit began.  off replaces the property by a new array and leaves this
\* one alone; elements pushed onto it during the walk are past the length
\* forEach fixed at its start.
ForEachLive(w, eventName, array) == w.events[eventName]
ForEachArray(w, eventName, array) == array

\* The forEach of emit, from element k on.
forEachListener(w, eventName, array, k) ==
  IF k > Len(array) \/ k > Len(ForEachArray(w, eventName, array)) THEN w
  ELSE Unless(TryCatch(invoke(w, eventName, ForEachArray(w, eventName, array)[k])),
              LAMBDA r : forEachListener(r, eventName, array, k + 1))

\* The array emit hands to forEach (lines 649-650): the listeners of the
\* topic, whether emit was called by application code or by a listener
\* that another emit is invoking.
ListenersAtTopLevel(w, eventName) ==
  IF w.depth > 0 THEN << >> ELSE w.events[eventName]
Listeners(w, eventName) == w.events[eventName]

\* EventBus.emit(eventName, data).
emit(w, eventName, data) ==
  [forEachListener(
     Log([w EXCEPT !.depth = @ + 1],
         [Ev("emit", eventName, data.id, 0, data.name, w.depth + 1)
            EXCEPT !.subs = w.events[eventName]]),
     eventName, Listeners(w, eventName), 1)
   EXCEPT !.depth = w.depth]

\* --------------------------------------------------------------- Character
\* The constructor's config.x || d: d when the config has no x (or 0).
OrDefault(v, d) == IF v = 0 THEN d ELSE v

\* new Character(id, name, config): super() gives the new object the
\* fields of an Entity (active, no engine, an empty component map), and
\* the constructor then writes the fields of the character.
Character(w, config) ==
  [w EXCEPT !.active[CharacterId] = TRUE,
            !.engineRef[CharacterId] = FALSE,
            !.components[CharacterId] = << >>,
            !.level = OrDefault(config.level, 1),
            !.experience = OrDefault(config.experience, 0),
            !.health = OrDefault(config.health, 100),
            !.maxHealth = OrDefault(config.maxHealth, 100),
            !.mana = OrDefault(config.mana, 50),
            !.maxMana = OrDefault(config.maxMana, 50),
            !.isAlive = TRUE,
            !.statusEffects = << >>]

\* if (this.engine) this.engine.eventBus.emit(eventName, data).
emitIfEngine(w, eventName, data) ==
  IF w.engineRef[CharacterId] THEN emit(w, eventName, data) ELSE w

\* Lines 387-393 of takeDamage, after the subtraction.
takeDamageCheck(w) ==
  IF w.health <= 0
  THEN emitIfEngine([w EXCEPT !.health = 0, !.isAlive = FALSE],
                    "character:died", Data("character", CharacterId))
  ELSE w

\* Character.takeDamage(amount): returns the health left.
returnHealth(w) == [w EXCEPT !.ret = w.health]
takeDamage(w, amount) ==
  returnHealth(
    takeDamageCheck(Log([w EXCEPT !.health = @ - amount],
                        Ev("takeDamage", "", amount, 0, "character", w.depth))))

\* Character.heal(amount): returns the health.
heal(w, amount) ==
  returnHealth([w EXCEPT !.health = IF @ + amount < w.maxHealth THEN @ + amount
                                    ELSE w.maxHealth])

\* Line 415 of levelUp.
levelDifferenceOne(w, newLevel) == 1
levelDifference(w, newLevel) == newLevel - w.level

\* Character.levelUp(newLevel).
levelUp(w, newLevel) ==
  emitIfEngine(
    Log([w EXCEPT !.level = newLevel,
                  !.maxHealth = @ + 10 * levelDifference(w, newLevel),
                  !.maxMana = @ + 5 * levelDifference(w, newLevel),
                  !.health = w.maxHealth + 10 * levelDifference(w, newLevel),
                  !.mana = w.maxMana + 5 * levelDifference(w, newLevel)],
        Ev("levelUp", "", newLevel, 0, "character", w.depth)),
    "character:levelUp", Data("character", newLevel))

\* Line 407 of addExperience: Math.floor(this.experience / 100) + 1.
NewLevel(xp) == (xp \div 100) + 1

\* Lines 407-411 of addExperience, after the addition.
addExperienceCheck(w) ==
  IF NewLevel(w.experience) > w.level THEN levelUp(w, NewLevel(w.experience)) ELSE w

\* Character.addExperience(amount).
addExperience(w, amount) ==
  addExperienceCheck([w EXCEPT !.experience = @ + amount])

\* Character.addStatusEffect(effect): the object itself is pushed, not a
\* copy of it.
addStatusEffect(w, effect) ==
  emitIfEngine([w EXCEPT !.statusEffects = Append(@, effect)],
               "character:statusEffectApplied",
               Data(w.effectObjects[effect].name, CharacterId))

\* Character.removeStatusEffect(effectName).
removeStatusEffect(w, effectName) ==
  [w EXCEPT !.statusEffects =
              SelectSeq(@, LAMBDA e : w.effectObjects[e].name # effectName)]

\* Lines 493-496 of Character.update, from entry k of the array on: the
\* filter lowers the duration of the entry's object by delta and keeps the
\* entry when the duration left is positive.  An object that is in the
\* array twice is lowered twice.
RECURSIVE TickFrom(_, _, _, _)
TickFrom(objects, effects, k, delta) ==
  IF k > Len(effects) THEN [objects |-> objects, kept |-> << >>]
  ELSE LET effect == effects[k]
           lowered == [objects EXCEPT ![effect].duration = FSub(@, delta)]
           rest == TickFrom(lowered, effects, k + 1, delta)
       IN  [objects |-> rest.objects,
            kept |-> IF FPositive(lowered[effect].duration)
                     THEN << effect >> \o rest.kept ELSE rest.kept]
Tick(w, delta) ==
  LET done == TickFrom(w.effectObjects, w.statusEffects, 1, delta)
  IN  [w EXCEPT !.effectObjects = done.objects, !.statusEffects = done.kept]

\* ------------------------------------------------------------ CombatSystem
\* Character.calculateTotalAttack and Character.calculateTotalDefense (the
\* defender wears nothing and keeps the default defense 5 and dexterity 10).
calculateTotalAttack(a) == a.attack + a.mainHand
DefenderDefense == 5
DefenderDexterity == 10

\* Line 581: hitChance, in hundredths.
hitChance(a) ==
  IF 50 + (a.dexterity - DefenderDexterity) < 95
  THEN 50 + (a.dexterity - DefenderDexterity) ELSE 95

\* CombatSystem.calculateDamage, for the draw r (hundredths) of the
\* variance: attackPower - defenseReduction is twice2 / 2 with twice2 =
\* 2 * attack * multiplier - defense, 1 + variance is (450 + r) / 500, and
\* Math.round(x) is floor(x + 0.5).
TwiceNet(a, critical) ==
  calculateTotalAttack(a) * (IF critical THEN 3 ELSE 2) - DefenderDefense
RoundThousandths(n) == (2 * n + 1000) \div 2000
\* Math.max(1, x), then Math.round, for x = n / 1000.
AtLeastZeroRounded(n) == IF n < 0 THEN 0 ELSE RoundThousandths(n)
AtLeastOne(n) == IF n < 1000 THEN 1 ELSE RoundThousandths(n)
calculateDamage(a, critical, r) ==
  AtLeastOne(TwiceNet(a, critical) * (450 + r))

\* Line 591: the test for a critical hit, for the draw r.
isCritical(a, r) == r < a.dexterity

\* CombatSystem.performAttack(attacker, defender), its draws r1 (hit), r2
\* (critical) and r3 (variance).
Result(hit, damage, critical) == [hit |-> hit, damage |-> damage, critical |-> critical]
performAttack(w, a, r1, r2, r3) ==
  IF r1 > hitChance(a)
  THEN [w EXCEPT !.ret = Result(FALSE, 0, FALSE)]
  ELSE [takeDamage(w, calculateDamage(a, isCritical(a, r2), r3))
        EXCEPT !.ret = Result(TRUE, calculateDamage(a, isCritical(a, r2), r3),
                              isCritical(a, r2))]

\* ------------------------------------------------------- Entity and Scene
RECURSIVE forEachComponent(_, _, _, _, _)
RECURSIVE forEachEntity(_, _, _, _, _)
RECURSIVE destroyAll(_, _, _)

\* What the update of component c of entity e does.  A component reaches
\* the engine through this.entity.engine, which is null until addEntity
\* has accepted the entity: the call on null throws.
componentUpdate(w, e, c) ==
  CASE c.upd = "return" -> w
    [] c.upd = "throw" -> Throw(w)
    [] c.upd = "stop" -> IF w.engineRef[e] THEN stop(w) ELSE Throw(w)

\* The test each forEach of Entity makes before it calls the component:
\* update (line 281), lateUpdate (line 289), destroy (line 326).
TakenWhenEnabled(c, phase) ==
  CASE phase = "update" -> c.enabled
    [] phase = "lateUpdate" -> c.enabled /\ c.late
    [] phase = "destroy" -> c.enabled /\ c.destroy
Taken(c, phase) ==
  CASE phase = "update" -> c.enabled
    [] phase = "lateUpdate" -> c.enabled /\ c.late
    [] phase = "destroy" -> c.destroy

\* One component of entity e, in Entity.update, Entity.lateUpdate or
\* Entity.destroy.
componentCall(w, e, c, phase, via) ==
  IF ~Taken(c, phase) THEN w
  ELSE IF phase = "update"
       THEN componentUpdate(Log(w, Ev(phase, c.name, e, 0, via, w.depth)), e, c)
       ELSE Log(w, Ev(phase, c.name, e, 0, via, w.depth))

\* Entity.update, Entity.lateUpdate and Entity.destroy from component k on:
\* the forEach over this.components.
forEachComponent(w, e, k, phase, via) ==
  IF k > Len(w.components[e]) THEN w
  ELSE Unless(componentCall(w, e, w.components[e][k], phase, via),
              LAMBDA r : forEachComponent(r, e, k + 1, phase, via))

\* Entity.addComponent(name, component): Map.set puts a new name last and
\* leaves a name the map has where it is.  No component of the model
\* defines init.  Returns the component.
addComponent(w, e, c) ==
  [w EXCEPT !.components[e] =
              IF \E k \in 1..Len(@) : @[k].name = c.name
              THEN [k \in 1..Len(@) |-> IF @[k].name = c.name THEN c ELSE @[k]]
              ELSE Append(@, c),
            !.ret = c]

\* Entity.removeComponent(name): the component's destroy is called when
\* the map has the name and the component defines destroy, and the name is
\* deleted.
removeComponent(w, e, name) ==
  LET found == SelectSeq(w.components[e], LAMBDA c : c.name = name /\ c.destroy)
      destroyed == IF found = << >> THEN w
                   ELSE Log(w, Ev("destroy", name, e, 0, "host", w.depth))
  IN  [destroyed EXCEPT !.components[e] = SelectSeq(@, LAMBDA c : c.name # name)]

\* Character.update(delta): super.update(delta), then the status effects.
Character_update(w, e, via) ==
  Unless(forEachComponent(w, e, 1, "update", via),
         LAMBDA r : Tick(r, Seconds(r.deltaTime)))

\* entity.update(delta), entity.lateUpdate(delta) or entity.destroy().
entityCall(w, e, phase, via) ==
  IF phase = "update" /\ IsCharacter(e) THEN Character_update(w, e, via)
  ELSE forEachComponent(w, e, 1, phase, via)

\* The forEach of Scene.update / Scene.lateUpdate (over the scene's array)
\* and of RPGEngine.update / RPGEngine.lateUpdate (over the registry), from
\* element k on: active entities are updated, one after the other.
forEachEntity(w, list, k, phase, via) ==
  IF k > Len(list) THEN w
  ELSE Unless(IF w.active[list[k]] THEN entityCall(w, list[k], phase, via) ELSE w,
              LAMBDA r : forEachEntity(r, list, k + 1, phase, via))

\* Scene.update and Scene.lateUpdate of the current scene, if there is one.
Scene_forEach(w, phase) ==
  IF w.currentScene # NoScene
  THEN forEachEntity(w, w.sceneEntities[w.currentScene], 1, phase, "scene")
  ELSE w

\* Scene.render of the current scene, if there is one: the base class
\* does nothing, a subclass may throw.
Scene_render(w) ==
  IF w.currentScene = NoScene THEN w
  ELSE IF SceneRender(w.currentScene) = "throw"
       THEN Throw(Log(w, Ev("render", w.currentScene, 0, 0, "scene", w.depth)))
       ELSE Log(w, Ev("render", w.currentScene, 0, 0, "scene", w.depth))

\* Scene.load.
Scene_load(w, s) ==
  Log([w EXCEPT !.isLoaded[s] = TRUE], Ev("load", s, 0, 0, "scene", w.depth))

\* Scene.unload: every entity of the list is destroyed, the list emptied.
destroyAll(w, list, k) ==
  IF k > Len(list) THEN w
  ELSE destroyAll(entityCall(w, list[k], "destroy", "scene"), list, k + 1)
Scene_unload(w, s) ==
  [destroyAll(Log([w EXCEPT !.isLoaded[s] = FALSE], Ev("unload", s, 0, 0, "scene", w.depth)),
              w.sceneEntities[s], 1)
   EXCEPT !.sceneEntities[s] = << >>]

\* --------------------------------------------------------------- RPGEngine
\* The forEach of RPGEngine.update and RPGEngine.lateUpdate over the
\* registry.
Registry_forEach(w, phase) == forEachEntity(w, w.entities, 1, phase, "registry")

\* RPGEngine.update(delta).
update(w, delta) ==
  Unless(Unless(Scene_forEach(Log(w, Ev("RPGEngine.update", "", delta, 0, "engine", w.depth)),
                              "update"),
                LAMBDA r : Registry_forEach(r, "update")),
         LAMBDA r : emit(r, "engine:update", Data("", delta)))

\* RPGEngine.lateUpdate(delta).
lateUpdate(w, delta) ==
  Unless(Scene_forEach(Log(w, Ev("RPGEngine.lateUpdate", "", delta, 0, "engine", w.depth)),
                       "lateUpdate"),
         LAMBDA r : Registry_forEach(r, "lateUpdate"))

\* RPGEngine.render.
render(w) ==
  Unless(Scene_render(Log(w, Ev("RPGEngine.render", "", 0, 0, "engine", w.depth))),
         LAMBDA r : emit(r, "engine:render", NoData))

\* The cap of gameLoop (lines 105-107).
CapNone(dt) == dt
CapDelta(dt) == IF dt > DeltaCap THEN DeltaCap ELSE dt

\* The test gameLoop makes before update and lateUpdate (line 109).
Paused(w) == w.isPaused

\* The test at the top of gameLoop (line 98).
Stopped(w) == ~w.isRunning

\* Lines 109-112 of gameLoop: update, then lateUpdate, unless paused.
updatePhasesLateFirst(w) ==
  IF Paused(w) THEN w
  ELSE Unless(lateUpdate(w, w.deltaTime), LAMBDA r : update(r, r.deltaTime))
updatePhases(w) ==
  IF Paused(w) THEN w
  ELSE Unless(update(w, w.deltaTime), LAMBDA r : lateUpdate(r, r.deltaTime))

\* Lines 116-119 of gameLoop: the counters, and the next frame.
endOfFrame(w) ==
  Log([w EXCEPT !.frameCount = @ + 1,
                !.gameTime = FAdd(@, Seconds(w.deltaTime)),
                !.scheduled = @ + 1],
      Ev("requestAnimationFrame", "", 0, 0, "engine", w.depth))

\* RPGEngine.gameLoop, Date.now() reading d ms after the last reading (the
\* history keeps d in the "frame" entry).
gameLoop(w, d) ==
  IF Stopped(w) THEN Log(w, Ev("gameLoop", "return", 0, 0, "engine", w.depth))
  ELSE Unless(Unless(updatePhases(Log([w EXCEPT !.deltaTime = CapDelta(d),
                                                !.lastFrameTime = @ + d],
                                      Ev("gameLoop", "frame", d, 0, "engine", w.depth))),
                     render),
              endOfFrame)

\* RPGEngine.start, its two readings of Date.now() d1 and then d2 ms on.
start(w, d1, d2) ==
  IF w.isRunning THEN Log(w, Ev("warn", "already running", 0, 0, "engine", w.depth))
  ELSE gameLoop(emit([w EXCEPT !.isRunning = TRUE, !.lastFrameTime = @ + d1],
                     "engine:start", NoData), d2)

\* RPGEngine.pause and RPGEngine.resume.
pause(w) == emit([w EXCEPT !.isPaused = TRUE], "engine:pause", NoData)
resume(w) == emit([w EXCEPT !.isPaused = FALSE], "engine:resume", NoData)

\* Lines 206-208 of loadScene: the scene that was current is unloaded.
unloadCurrent(w) ==
  IF w.currentScene # NoScene THEN Scene_unload(w, w.currentScene) ELSE w

\* RPGEngine.loadScene(name).
loadSceneLoadFirst(w, name) ==
  IF name \notin SceneNames THEN [w EXCEPT !.ret = "false"]
  ELSE [emit([unloadCurrent(Scene_load(w, name)) EXCEPT !.currentScene = name],
             "engine:sceneLoaded", Data(name, 0))
        EXCEPT !.ret = "true"]
loadScene(w, name) ==
  IF name \notin SceneNames THEN [w EXCEPT !.ret = "false"]
  ELSE [emit(Scene_load([unloadCurrent(w) EXCEPT !.currentScene = name], name),
             "engine:sceneLoaded", Data(name, 0))
        EXCEPT !.ret = "true"]

\* The capacity test of addEntity (line 221).
FullAbove(w) == Len(w.entities) > maxEntities
Full(w) == Len(w.entities) >= maxEntities

\* RPGEngine.addEntity(entity): Map.set keeps the place of a key it holds.
addEntity(w, e) ==
  IF Full(w)
  THEN [Log(w, Ev("warn", "limit", e, 0, "engine", w.depth)) EXCEPT !.ret = "false"]
  ELSE [emit([w EXCEPT !.entities = IF e \in Range(@) THEN @ ELSE Append(@, e),
                       !.engineRef[e] = TRUE],
             "entity:added", Data("", e))
        EXCEPT !.ret = "true"]

\* RPGEngine.removeEntity(entityId).
removeEntity(w, e) ==
  IF e \in Range(w.entities)
  THEN [emit([w EXCEPT !.entities = SelectSeq(@, LAMBDA x : x # e)],
             "entity:removed", Data("", e))
        EXCEPT !.ret = "true"]
  ELSE [w EXCEPT !.ret = "false"]

\* Scene.addEntity(entity) and Scene.removeEntity(entity); both return
\* nothing.
Scene_addEntity(w, s, e) ==
  [addEntity([w EXCEPT !.sceneEntities[s] = Append(@, e)], e) EXCEPT !.ret = "undefined"]
Scene_removeEntity(w, s, e) ==
  [removeEntity([w EXCEPT !.sceneEntities[s] = SelectSeq(@, LAMBDA x : x # e)], e)
     EXCEPT !.ret = "undefined"]

\* -------------------------------------------------------- calls of the host
\* The state after a call that ran in World and ended in w; op names the
\* call, and lastOp.ret is what the caller got back ("fault": an exception).
Op(op, name, id) == [op |-> op, name |-> name, id |-> id, ret |-> "undefined"]
Commit(w, op) ==
  /\ isRunning' = w.isRunning
  /\ isPaused' = w.isPaused
  /\ deltaTime' = w.deltaTime
  /\ gameTime' = w.gameTime
  /\ frameCount' = w.frameCount
  /\ lastFrameTime' = w.lastFrameTime
  /\ entities' = w.entities
  /\ currentScene' = w.currentScene
  /\ sceneEntities' = w.sceneEntities
  /\ isLoaded' = w.isLoaded
  /\ engineRef' = w.engineRef
  /\ active' = w.active
  /\ components' = w.components
  /\ level' = w.level
  /\ experience' = w.experience
  /\ health' = w.health
  /\ maxHealth' = w.maxHealth
  /\ mana' = w.mana
  /\ maxMana' = w.maxMana
  /\ isAlive' = w.isAlive
  /\ statusEffects' = w.statusEffects
  /\ effectObjects' = w.effectObjects
  /\ scheduled' = w.scheduled
  /\ events' = w.events
  /\ republished' = w.republished
  /\ onceCalls' = w.onceCalls
  /\ calls' = w.calls
  /\ lastOp' = [op EXCEPT !.ret = IF w.fault THEN "fault" ELSE w.ret]

RECURSIVE SumLen(_, _)
SumLen(f, S) ==
  IF S = {} THEN 0
  ELSE LET t == CHOOSE x \in S : TRUE IN Len(f[t]) + SumLen(f, S \ {t})
TotalSubs == SumLen(events, Topics)
LiveWrappers == UNION {{s.wid : s \in Range(events[t])} : t \in Topics}
\* A callback that publishes "evt:b" on every call is never subscribed to
\* "evt:b" itself: that publish would not end.
Ends(eventName, l) == ~(Behaviour(l) = "publishB" /\ eventName = "evt:b")

\* bus.on(eventName, l), for a callback l.
On(eventName, l) ==
  /\ TotalSubs < MaxSubs
  /\ Ends(eventName, l)
  /\ Commit(on(World, eventName, Sub(l, 0)), Op("on", "", 0))

\* bus.once(eventName, l): a new wrapper around l is subscribed.
Once(eventName, l) ==
  /\ TotalSubs < MaxSubs
  /\ Ends(eventName, l)
  /\ \E wid \in 1..MaxSubs :
       /\ wid \notin LiveWrappers
       /\ \A v \in 1..(wid - 1) : v \in LiveWrappers
       /\ Commit(on([World EXCEPT !.onceCalls[wid] = 0], eventName, Sub(l, wid)),
                 Op("once", "", 0))

\* bus.off(eventName, l), or the unsubscribe function that on returned.
\* Called for a callback that is not subscribed it changes nothing.
Off(eventName, l) ==
  /\ Sub(l, 0) \in Range(events[eventName])
  /\ Commit(off(World, eventName, Sub(l, 0)), Op("off", "", 0))

\* bus.emit(eventName, data) called by application code.  The history
\* onceCalls is kept finite: nothing is published after some once-wrapper
\* has run its callback a second time.
Emit(eventName) ==
  /\ \A wid \in 1..MaxSubs : onceCalls[wid] <= 1
  /\ Commit(emit(World, eventName, NoData), Op("emit", eventName, 0))

\* bus.clear(eventName), and bus.clear() (eventName = NoTopic).
Clear(eventName) ==
  /\ IF eventName # NoTopic THEN events[eventName] # << >>
      ELSE \E t \in Topics : events[t] # << >>
  /\ Commit(clear(World, eventName), Op("clear", eventName, 0))

\* engine.start().
Start(d1, d2) ==
  /\ frameCount < MaxFrames
  /\ lastFrameTime + d1 + d2 <= MaxTime
  /\ Commit(start(World, d1, d2), Op("start", "", 0))

\* engine.stop().
Stop == Commit(stop(World), Op("stop", "", 0))

\* The host runs a frame callback it holds: () => this.gameLoop().
GameLoop(d) ==
  /\ scheduled > 0
  /\ frameCount < MaxFrames
  /\ lastFrameTime + d <= MaxTime
  /\ Commit(gameLoop([World EXCEPT !.scheduled = @ - 1], d), Op("gameLoop", "", 0))

\* engine.pause() and engine.resume().
Pause == Commit(pause(World), Op("pause", "", 0))
Resume == Commit(resume(World), Op("resume", "", 0))

\* engine.loadScene(name).
LoadScene(name) == Commit(loadScene(World, name), Op("loadScene", name, 0))

\* engine.addEntity(entity) and engine.removeEntity(entity.id).
AddEntity(e) == Commit(addEntity(World, e), Op("addEntity", "", e))
RemoveEntity(e) == Commit(removeEntity(World, e), Op("removeEntity", "", e))

\* scene.addEntity(entity) and scene.removeEntity(entity).
SceneAddEntity(s, e) ==
  /\ Len(sceneEntities[s]) < MaxSceneEntities
  /\ Commit(Scene_addEntity(World, s, e), Op("Scene.addEntity", s, e))
SceneRemoveEntity(s, e) ==
  Commit(Scene_removeEntity(World, s, e), Op("Scene.removeEntity", s, e))

\* entity.destroy().
Destroy(e) ==
  Commit(entityCall(World, e, "destroy", "host"), Op("destroy", "", e))

\* entity.addComponent(c.name, c) with a component the entity was built
\* with, and entity.removeComponent(name).
AddComponent(e, c) ==
  Commit(addComponent(World, e, c), Op("addComponent", c.name, e))
RemoveComponent(e, name) ==
  /\ \E c \in Range(components[e]) : c.name = name
  /\ Commit(removeComponent(World, e, name), Op("removeComponent", name, e))

\* new Character(1, name, config), before anything is done with it.
Construct(config) ==
  /\ lastOp.op = "new"
  /\ Commit(Character(World, config), Op("new Character", "", 0))

\* character.takeDamage(amount), character.heal(amount),
\* character.addExperience(amount).
TakeDamage(amount) ==
  Commit(takeDamage(World, amount), Op("takeDamage", "", amount))
Heal(amount) ==
  Commit(heal(World, amount), Op("heal", "", amount))
AddExperience(amount) ==
  /\ experience + amount <= MaxExperience
  /\ Commit(addExperience(World, amount), Op("addExperience", "", amount))

\* character.levelUp(character.level + 1), called directly.
LevelUp ==
  /\ level < MaxLevel
  /\ Commit(levelUp(World, level + 1), Op("levelUp", "", level + 1))

\* character.addStatusEffect(effect) with a new object, which the caller
\* keeps at ref: the first reference to no object the character carries.
AddStatusEffect(ref, effect) ==
  /\ Len(statusEffects) < MaxEffects
  /\ ref \notin Range(statusEffects)
  /\ \A other \in EffectRefs : other < ref => other \in Range(statusEffects)
  /\ Commit(addStatusEffect([World EXCEPT !.effectObjects[ref] = effect], ref),
            Op("addStatusEffect", effect.name, ref))

\* character.addStatusEffect(effect) with the object the caller keeps at
\* ref, as the character's updates left it.
AddStatusEffectAgain(ref) ==
  /\ Len(statusEffects) < MaxEffects
  /\ effectObjects[ref] # NoEffect
  /\ Commit(addStatusEffect(World, ref),
            Op("addStatusEffect", effectObjects[ref].name, ref))

\* character.removeStatusEffect(effectName).
RemoveStatusEffect(effectName) ==
  Commit(removeStatusEffect(World, effectName), Op("removeStatusEffect", effectName, 0))

\* CombatSystem.performAttack(attacker, character), Math.random() returning
\* r1, r2 and r3 (hundredths) in turn.
PerformAttack(a, r1, r2, r3) ==
  Commit(performAttack(World, a, r1, r2, r3), Op("performAttack", "", a.attack))

\* ----------------------------------------------------------- specifications
\* The engine after new RPGEngine({maxEntities}) and createScene for each
\* name of SceneNames; every entity built and not yet added anywhere.
Init ==
  /\ isRunning = FALSE
  /\ isPaused = FALSE
  /\ deltaTime = 0
  /\ gameTime = Zero
  /\ frameCount = 0
  /\ lastFrameTime = 0
  /\ entities = << >>
  /\ currentScene = NoScene
  /\ sceneEntities = [s \in SceneNames |-> << >>]
  /\ isLoaded = [s \in SceneNames |-> FALSE]
  /\ engineRef = [e \in EntityIds |-> FALSE]
  /\ active = [e \in EntityIds |-> TRUE]
  /\ components = [e \in EntityIds |-> Components(e)]
  /\ level = 1
  /\ experience = 0
  /\ health = 100
  /\ maxHealth = 100
  /\ mana = 50
  /\ maxMana = 50
  /\ isAlive = TRUE
  /\ statusEffects = << >>
  /\ effectObjects = [ref \in EffectRefs |-> NoEffect]
  /\ scheduled = 0
  /\ events = [t \in Topics |-> << >>]
  /\ republished = {}
  /\ onceCalls = [wid \in 1..MaxSubs |-> 0]
  /\ calls = << >>
  /\ lastOp = Op("new", "", 0)

\* The bus alone, used by application code.
BusListeners == {1, 2, 3, 4, 5}
NextBus ==
  \/ \E t \in AppTopics, l \in BusListeners : On(t, l)
  \/ \E t \in AppTopics, l \in BusListeners : Once(t, l)
  \/ \E t \in AppTopics, l \in BusListeners : Off(t, l)
  \/ \E t \in AppTopics : Emit(t)
  \/ \E t \in AppTopics \union {NoTopic} : Clear(t)
SpecBus == Init /\ [][NextBus]_vars

\* The frame loop, over an engine populated through addEntity, the scene
\* "town" (which takes entity 1) and loadScene, with listeners on
\* engine:update, each subscribed at most once.
FrameListeners == {2, 6}
Next ==
  \/ \E d1 \in Elapsed, d2 \in Elapsed : Start(d1, d2)
  \/ Stop
  \/ \E d \in Elapsed : GameLoop(d)
  \/ Pause
  \/ Resume
  \/ \E name \in SceneNames : LoadScene(name)
  \/ \E e \in EntityIds : AddEntity(e)
  \/ SceneAddEntity("town", 1)
  \/ \E l \in FrameListeners :
       Sub(l, 0) \notin Range(events["engine:update"]) /\ On("engine:update", l)
Spec == Init /\ [][Next]_vars

\* The registry and the scenes, with no frame running.
NextRegistry ==
  \/ \E name \in SceneNames \union {"void"} : LoadScene(name)
  \/ \E e \in EntityIds : AddEntity(e)
  \/ \E e \in EntityIds : RemoveEntity(e)
  \/ \E s \in SceneNames, e \in EntityIds : SceneAddEntity(s, e)
  \/ \E s \in SceneNames, e \in EntityIds : SceneRemoveEntity(s, e)
SpecRegistry == Init /\ [][NextRegistry]_vars

\* A character and its progression: damage, healing, experience, levels.
NextCharacter ==
  \/ \E config \in Configs : Construct(config)
  \/ AddEntity(CharacterId)
  \/ \E amount \in DamageAmounts : TakeDamage(amount)
  \/ \E amount \in HealAmounts : Heal(amount)
  \/ \E amount \in ExperienceAmounts : AddExperience(amount)
  \/ LevelUp
SpecCharacter == Init /\ [][NextCharacter]_vars

\* A character that only gathers experience.
NextExperience ==
  \/ \E config \in Configs : Construct(config)
  \/ AddEntity(CharacterId)
  \/ \E amount \in ExperienceAmounts : AddExperience(amount)
SpecExperience == Init /\ [][NextExperience]_vars

\* A character under attack.
NextCombat ==
  \/ AddEntity(CharacterId)
  \/ \E a \in Attackers, r1 \in Draws, r2 \in Draws, r3 \in Draws :
       PerformAttack(a, r1, r2, r3)
  \/ \E amount \in HealAmounts : Heal(amount)
SpecCombat == Init /\ [][NextCombat]_vars

\* Entities registered, removed and destroyed.
NextEntity ==
  \/ \E e \in EntityIds : AddEntity(e)
  \/ \E e \in EntityIds : RemoveEntity(e)
  \/ \E e \in EntityIds : Destroy(e)
  \/ \E e \in EntityIds : \E c \in Range(Components(e)) : AddComponent(e, c)
  \/ \E e \in EntityIds : \E c \in Range(Components(e)) : RemoveComponent(e, c.name)
SpecEntity == Init /\ [][NextEntity]_vars

\* The frame loop over a character that carries status effects, in the
\* scene "town" and in the registry, next to a plain entity.
NextEffects ==
  \/ \E d1 \in Elapsed, d2 \in Elapsed : Start(d1, d2)
  \/ \E d \in Elapsed : GameLoop(d)
  \/ Pause
  \/ Resume
  \/ LoadScene("town")
  \/ SceneAddEntity("town", CharacterId)
  \/ \E e \in {CharacterId, 3} : AddEntity(e)
  \/ \E ref \in EffectRefs, effect \in Effects : AddStatusEffect(ref, effect)
  \/ \E ref \in EffectRefs : AddStatusEffectAgain(ref)
  \/ \E effectName \in EffectNames : RemoveStatusEffect(effectName)
SpecEffects == Init /\ [][NextEffects]_vars

\* ------------------------------------------------------ reading the history
\* The delivery pass of the emit logged at calls[p]: the listeners it
\* invoked itself (not those of a publish nested in it), in order.
PassEnd(p) ==
  LET d == calls[p].depth
      ends == {q \in (p + 1)..Len(calls) :
                 \/ calls[q].depth < d
                 \/ calls[q].ev = "emit" /\ calls[q].depth = d}
  IN IF ends = {} THEN Len(calls) + 1
     ELSE CHOOSE q \in ends : \A r \in ends : q <= r
Pass(p) ==
  LET d == calls[p].depth
      own == SelectSeq(SubSeq(calls, p + 1, PassEnd(p) - 1),
                       LAMBDA c : c.ev = "listener" /\ c.depth = d)
  IN [i \in 1..Len(own) |-> Sub(own[i].who, own[i].wid)]
Emits == {p \in 1..Len(calls) : calls[p].ev = "emit"}

\* ------------------------------------------------------------------ claims
\* C1: in every publish, a listener that raises a fault does not keep the
\* listeners subscribed after it from being invoked in that same publish,
\* and the fault does not reach the publisher.
C1_FaultIsolated ==
  /\ \A p \in Emits :
       \A i \in 1..Len(calls[p].subs) :
         Behaviour(calls[p].subs[i].cb) = "throw" =>
           \A j \in (i + 1)..Len(calls[p].subs) :
             /\ j <= Len(Pass(p))
             /\ Pass(p)[j] = calls[p].subs[j]
  /\ lastOp.op = "emit" => lastOp.ret # "fault"
\* A publish whose first listener raised a fault and whose second ran.
C1_Witness ==
  /\ lastOp.op = "emit"
  /\ \E p \in Emits :
       /\ Len(calls[p].subs) >= 2
       /\ Behaviour(calls[p].subs[1].cb) = "throw"
       /\ Len(Pass(p)) >= 2

\* C7: a publish invokes exactly the listeners subscribed when it began,
\* each once, in subscription order, whatever the listeners unsubscribe
\* during the pass.
C7_PassIsSnapshot ==
  \A p \in Emits : Pass(p) = calls[p].subs
\* A publish during which a listener unsubscribed itself and a listener
\* that came after it in the pass.
C7_Witness ==
  /\ lastOp.op = "emit"
  /\ \E p \in Emits :
       /\ Len(calls[p].subs) >= 2
       /\ calls[p].subs[1] = Sub(3, 0)
       /\ calls[p].subs[2] = Sub(1, 0)
       /\ events[calls[p].what] = << >>

\* C8: a listener registered with once is invoked at most once, over all
\* publishes.
C8_OnceFiresOnce ==
  \A wid \in 1..MaxSubs : onceCalls[wid] <= 1

\* The entries of the history with one of the names evs, and whether the
\* call ran a frame (gameLoop went past its first test).
At(evs) == {p \in 1..Len(calls) : calls[p].ev \in evs}
FrameRan == \E p \in At({"gameLoop"}) : calls[p].what = "frame"

\* C2: a frame that began completes and schedules the next one, whatever
\* failed in it.
C2_FrameAlwaysCompletes ==
  FrameRan => /\ lastOp.ret # "fault"
              /\ At({"RPGEngine.render"}) # {}
              /\ At({"requestAnimationFrame"}) # {}

\* The component calls a frame owes, from the state: for the current scene's
\* list and then the registry, each active entity's components that pass
\* the test of the phase, entity by entity.
Visits ==
  (IF currentScene # NoScene
   THEN [i \in 1..Len(sceneEntities[currentScene]) |->
           [e |-> sceneEntities[currentScene][i], via |-> "scene"]]
   ELSE << >>)
  \o [i \in 1..Len(entities) |-> [e |-> entities[i], via |-> "registry"]]
Owed(v, phase) ==
  LET cs == SelectSeq(components[v.e],
                      LAMBDA c : c.enabled /\ (phase = "lateUpdate" => c.late))
  IN IF active[v.e] THEN [i \in 1..Len(cs) |-> << v.e, cs[i].name, v.via >>] ELSE << >>
RECURSIVE Expected(_, _)
Expected(visits, phase) ==
  IF visits = << >> THEN << >>
  ELSE Owed(Head(visits), phase) \o Expected(Tail(visits), phase)
Actual(phase) ==
  LET own == SelectSeq(calls, LAMBDA c : c.ev = phase)
  IN [i \in 1..Len(own) |-> << own[i].who, own[i].what, own[i].via >>]
IsPrefix(a, b) == Len(a) <= Len(b) /\ a = SubSeq(b, 1, Len(a))

\* C3: in a frame every update call comes before every lateUpdate call and
\* every lateUpdate call before render; the updates are those of the
\* current scene's entities and then of the registry's, each entity's
\* components together, and all of them have run when lateUpdate begins
\* (as all lateUpdate calls have when render begins).
C3_PhaseOrder ==
  /\ \A p \in At({"update"}), q \in At({"lateUpdate", "RPGEngine.lateUpdate"}) : p < q
  /\ \A p \in At({"update", "lateUpdate"}), q \in At({"render", "RPGEngine.render"}) : p < q
  /\ IsPrefix(Actual("update"), Expected(Visits, "update"))
  /\ At({"RPGEngine.lateUpdate"}) # {} => Actual("update") = Expected(Visits, "update")
  /\ IsPrefix(Actual("lateUpdate"), Expected(Visits, "lateUpdate"))
  /\ At({"RPGEngine.render"}) # {} /\ At({"RPGEngine.update"}) # {}
       => Actual("lateUpdate") = Expected(Visits, "lateUpdate")
\* A frame with a current scene that updated two entities or more, ran
\* lateUpdate calls and rendered.
C3_Witness ==
  /\ FrameRan
  /\ currentScene # NoScene
  /\ Len(Actual("update")) >= 4
  /\ \E i, j \in 1..Len(Actual("update")) : Actual("update")[i][1] # Actual("update")[j][1]
  /\ Len(Actual("lateUpdate")) >= 2
  /\ At({"render"}) # {}

\* C4: the delta handed to update and lateUpdate, and the amount added to
\* gameTime, is at most the cap, whatever time has passed.
C4_Step ==
  /\ \A p \in 1..Len(calls') :
       calls'[p].ev \in {"RPGEngine.update", "RPGEngine.lateUpdate"}
         => calls'[p].who <= DeltaCap
  /\ deltaTime' <= DeltaCap
  /\ gameTime' # gameTime => gameTime' = FAdd(gameTime, Seconds(deltaTime'))
C4_DeltaCapped == [][C4_Step]_vars
\* A frame that came more than the cap after the last one and handed the
\* cap to update.
C4_Witness ==
  /\ \E p \in At({"gameLoop"}) : calls[p].what = "frame" /\ calls[p].who > DeltaCap
  /\ \E q \in At({"RPGEngine.update"}) : calls[q].who = DeltaCap
  /\ At({"requestAnimationFrame"}) # {}

\* C5: a frame that runs while paused calls no update and no lateUpdate and
\* publishes no engine:update, and still renders, counts the frame, adds
\* the delta to gameTime and schedules the next frame; a frame that runs
\* while not paused calls update.
C5_Step ==
  /\ isPaused /\ FrameRan' =>
       /\ \A p \in 1..Len(calls') :
            /\ calls'[p].ev \notin {"update", "lateUpdate", "RPGEngine.update",
                                    "RPGEngine.lateUpdate"}
            /\ ~(calls'[p].ev = "emit" /\ calls'[p].what = "engine:update")
       /\ \E p \in 1..Len(calls') : calls'[p].ev = "RPGEngine.render"
       /\ \E p \in 1..Len(calls') : calls'[p].ev = "requestAnimationFrame"
       /\ frameCount' = frameCount + 1
       /\ gameTime' = FAdd(gameTime, Seconds(deltaTime'))
  /\ ~isPaused /\ FrameRan' =>
       \E p \in 1..Len(calls') : calls'[p].ev = "RPGEngine.update"
C5_PausedFrame == [][C5_Step]_vars

\* C6: a frame during which stop is called still runs to its end, and a
\* frame callback that finds the engine stopped returns at once.
C6_Step ==
  /\ FrameRan' /\ (\E p \in 1..Len(calls') :
                     calls'[p].ev = "emit" /\ calls'[p].what = "engine:stop") =>
       /\ lastOp'.ret # "fault"
       /\ \E p \in 1..Len(calls') : calls'[p].ev = "RPGEngine.render"
  /\ lastOp'.op = "gameLoop" /\ ~isRunning =>
       /\ scheduled' = scheduled - 1
       /\ Len(calls') = 1
       /\ UNCHANGED << isRunning, isPaused, deltaTime, gameTime, frameCount,
                       lastFrameTime, entities, currentScene, sceneEntities,
                       isLoaded, engineRef, active, events >>
C6_StopInFlight == [][C6_Step]_vars

\* C9: loadScene of a name that is not registered returns false, raises
\* nothing, changes no scene and publishes nothing; of a registered name
\* it unloads the scene that was current before it loads the new one,
\* leaves the new one current and loaded, publishes engine:sceneLoaded
\* once, with that name, and returns true.
C9_Step ==
  lastOp'.op = "loadScene" =>
    IF lastOp'.name \notin SceneNames
    THEN /\ lastOp'.ret = "false"
         /\ UNCHANGED << currentScene, isLoaded, sceneEntities >>
         /\ calls' = << >>
    ELSE /\ lastOp'.ret = "true"
         /\ currentScene' = lastOp'.name
         /\ isLoaded'[lastOp'.name]
         /\ \A s \in SceneNames \ {lastOp'.name} : s = currentScene => ~isLoaded'[s]
         /\ \E p \in 1..Len(calls') :
              /\ calls'[p].ev = "emit"
              /\ calls'[p].what = "engine:sceneLoaded"
              /\ calls'[p].via = lastOp'.name
              /\ \A q \in 1..Len(calls') : calls'[q].ev = "emit" => q = p
         /\ \E q \in 1..Len(calls') :
              /\ calls'[q].ev = "load" /\ calls'[q].what = lastOp'.name
              /\ \A p \in 1..Len(calls') : calls'[p].ev = "unload" =>
                   p < q /\ calls'[p].what = currentScene
         /\ currentScene # NoScene <=> \E p \in 1..Len(calls') : calls'[p].ev = "unload"
C9_LoadScene == [][C9_Step]_vars
\* loadScene of the current scene's own name: it was unloaded, then loaded.
C9_Witness ==
  /\ lastOp.op = "loadScene"
  /\ lastOp.ret = "true"
  /\ \E p \in At({"unload"}) : calls[p].what = lastOp.name
  /\ isLoaded[currentScene]

\* C10: the registry never holds more than maxEntities entities, and an
\* addEntity made when it holds maxEntities returns false, raises nothing,
\* leaves the registry and the entity's engine reference as they were and
\* publishes no entity:added.
C10_Step ==
  /\ Len(entities') <= maxEntities
  /\ lastOp'.op \in {"addEntity", "Scene.addEntity"} /\ Len(entities) >= maxEntities =>
       /\ lastOp'.op = "addEntity" => lastOp'.ret = "false"
       /\ lastOp'.ret # "fault"
       /\ UNCHANGED << entities, engineRef >>
       /\ \A p \in 1..Len(calls') : calls'[p].ev # "emit"
C10_Capacity == [][C10_Step]_vars
\* An addEntity of an entity never added before, refused by a full registry.
C10_Witness ==
  /\ lastOp.op = "addEntity"
  /\ lastOp.ret = "false"
  /\ Len(entities) = maxEntities
  /\ lastOp.id \notin Range(entities)
  /\ ~engineRef[lastOp.id]

\* C11: every entity in a scene's entity list is in the engine's registry
\* under its id, whatever calls of Scene.addEntity, Scene.removeEntity,
\* addEntity and removeEntity were made.
C11_SceneEntitiesRegistered ==
  \A s \in SceneNames : \A e \in Range(sceneEntities[s]) : e \in Range(entities)

\* C12: after any calls of takeDamage, heal, addExperience and levelUp the
\* character's health is between 0 and maxHealth, and the character is not
\* alive exactly when its health is 0.
C12_HealthInvariant ==
  /\ 0 <= health
  /\ health <= maxHealth
  /\ isAlive = (health # 0)

\* The emit entries of the call just made (calls') for one topic.
EmitsOf(topic) ==
  {p \in 1..Len(calls') : calls'[p].ev = "emit" /\ calls'[p].what = topic}

\* C13: a takeDamage of at least the health of a registered character
\* leaves it dead with health 0; character:died is published once when the
\* character was alive, and not at all when it was dead already.
C13_Step ==
  lastOp'.op = "takeDamage" /\ engineRef[CharacterId] =>
    /\ lastOp'.id >= health => health' = 0 /\ ~isAlive'
    /\ isAlive /\ ~isAlive' => Cardinality(EmitsOf("character:died")) = 1
    /\ ~isAlive => EmitsOf("character:died") = {}
C13_DiedOnce == [][C13_Step]_vars

\* C14: after each addExperience the level is floor(experience / 100) + 1,
\* the level is not lower than before, and addExperience(0) changes no
\* field of the character.
C14_Step ==
  lastOp'.op = "addExperience" =>
    /\ level' = (experience' \div 100) + 1
    /\ level' >= level
    /\ lastOp'.id = 0 =>
         UNCHANGED << level, experience, health, maxHealth, mana, maxMana, isAlive >>
C14_LevelOfExperience == [][C14_Step]_vars

\* C15: an addExperience that raises a registered character by k levels
\* publishes character:levelUp once, with the level reached, adds 10 * k to
\* maxHealth and 5 * k to maxMana and leaves health and mana at their
\* maxima; one that raises no level publishes no character:levelUp and
\* leaves health, mana and the maxima as they were.
C15_Step ==
  lastOp'.op = "addExperience" /\ engineRef[CharacterId] =>
    IF level' > level
    THEN /\ Cardinality(EmitsOf("character:levelUp")) = 1
         /\ \A p \in EmitsOf("character:levelUp") : calls'[p].who = level'
         /\ maxHealth' = maxHealth + 10 * (level' - level)
         /\ maxMana' = maxMana + 5 * (level' - level)
         /\ health' = maxHealth'
         /\ mana' = maxMana'
    ELSE /\ EmitsOf("character:levelUp") = {}
         /\ UNCHANGED << level, health, maxHealth, mana, maxMana >>
C15_LevelUpOnce == [][C15_Step]_vars
\* addExperience(250) took a damaged level-1 character with mana below its
\* maximum to level 3 in one call, with one character:levelUp.
C15_Witness ==
  /\ lastOp.op = "addExperience"
  /\ lastOp.id = 250
  /\ experience = 250
  /\ level = 3
  /\ maxHealth = 120 /\ health = 120
  /\ maxMana = 60 /\ mana = 60
  /\ \E p \in Emits : calls[p].what = "character:levelUp" /\ calls[p].who = 3

\* The entries of the call just made (calls') with the name ev.
EntriesOf(ev) == {p \in 1..Len(calls') : calls'[p].ev = ev}

\* C16: performAttack returns either a miss, with damage 0, not critical,
\* the defender's health and isAlive as they were and nothing published,
\* or a hit with a damage of at least 1 that was handed to takeDamage
\* once: the defender's health went down by that damage, and not below 0.
C16_Step ==
  lastOp'.op = "performAttack" =>
    \/ /\ lastOp'.ret = Result(FALSE, 0, FALSE)
       /\ UNCHANGED << health, isAlive >>
       /\ calls' = << >>
    \/ /\ lastOp'.ret.hit
       /\ lastOp'.ret.damage >= 1
       /\ Cardinality(EntriesOf("takeDamage")) = 1
       /\ \A p \in EntriesOf("takeDamage") : calls'[p].who = lastOp'.ret.damage
       /\ health' = IF health - lastOp'.ret.damage > 0
                    THEN health - lastOp'.ret.damage ELSE 0
C16_HitOrMiss == [][C16_Step]_vars
\* A hit whose damage is the floor 1 (the attack is weaker than half the
\* defense) on a defender that was hurt before and survives.
C16_Witness ==
  /\ lastOp.op = "performAttack"
  /\ lastOp.ret.hit
  /\ lastOp.ret.damage = 1
  /\ lastOp.id = 1
  /\ 0 < health /\ health < 50
  /\ isAlive

\* How often the call just made called phase ("update" or "lateUpdate") on
\* component c of entity e.
CallsOf(phase, e, c) ==
  Cardinality({p \in EntriesOf(phase) : calls'[p].who = e /\ calls'[p].what = c.name})
\* How often an unpaused frame owes entity e its update and lateUpdate:
\* twice when e is in the current scene's list and in the registry, once
\* when it is in the registry only.
InScene(e) == currentScene # NoScene /\ e \in Range(sceneEntities[currentScene])
OwedCalls(e) == IF InScene(e) THEN 2 ELSE 1
\* The duration left of the effect object e after it dropped by drop.
Dropped(e, drop) == FSub(effectObjects[e].duration, drop)

\* C17: in a frame that runs while not paused, an active entity of the
\* registry has each enabled component's update called twice when it is
\* also in the current scene's list and once when it is not (and likewise
\* lateUpdate, for the components that define it); the status effects of
\* a character in both lose twice the frame's delta.
C17_Step ==
  FrameRan' /\ ~isPaused =>
    /\ \A e \in Range(entities) :
         active[e] =>
           \A k \in 1..Len(components[e]) :
             /\ Taken(components[e][k], "update") =>
                  CallsOf("update", e, components[e][k]) = OwedCalls(e)
             /\ Taken(components[e][k], "lateUpdate") =>
                  CallsOf("lateUpdate", e, components[e][k]) = OwedCalls(e)
    /\ CharacterId \in Range(entities) /\ InScene(CharacterId) =>
         LET twice == FAdd(Seconds(deltaTime'), Seconds(deltaTime'))
         IN  /\ statusEffects' =
                  SelectSeq(statusEffects, LAMBDA e : FPositive(Dropped(e, twice)))
             /\ \A e \in Range(statusEffects') :
                  effectObjects'[e].duration = Dropped(e, twice)
C17_UpdatedTwice == [][C17_Step]_vars

\* The publishes made by a listener (from within another publish), and the
\* publish a nested publish was made from.
Nested == {q \in Emits : calls[q].depth >= 2}
Outer(q) ==
  CHOOSE p \in Emits :
    /\ p < q
    /\ calls[p].depth = calls[q].depth - 1
    /\ \A r \in Emits : r < q /\ calls[r].depth = calls[q].depth - 1 => r <= p

\* C18: a publish made by a listener is delivered at once: a listener that
\* publishes "evt:b" is followed directly by that publish, every listener
\* subscribed to the topic of a nested publish is invoked before control
\* is back in the publish it was made from, and that publish still invokes
\* all of its own listeners.
C18_NestedDelivery ==
  /\ \A i \in At({"listener"}) :
       Behaviour(calls[i].who) = "publishB" =>
         /\ i < Len(calls)
         /\ calls[i + 1].ev = "emit"
         /\ calls[i + 1].what = "evt:b"
         /\ calls[i + 1].depth = calls[i].depth + 1
  /\ \A q \in Nested :
       /\ Pass(q) = calls[q].subs
       /\ Pass(Outer(q)) = calls[Outer(q)].subs
\* A publish whose first listener published to two listeners, both invoked
\* before the second listener of the publish it was made from.
C18_Witness ==
  /\ lastOp.op = "emit"
  /\ \E q \in Nested :
       /\ Len(Pass(q)) = 2
       /\ Len(calls[Outer(q)].subs) = 2
       /\ \E j \in At({"listener"}) :
            /\ j >= PassEnd(q)
            /\ calls[j].depth = calls[q].depth - 1
            /\ Sub(calls[j].who, calls[j].wid) = calls[Outer(q)].subs[2]

\* The components of entity e that define destroy, in the order of the
\* component mapping.
WithDestroy(e) == SelectSeq(components[e], LAMBDA c : c.destroy)

\* C19: entity.destroy() calls destroy on each component the entity owns
\* that defines it, enabled or not, and nothing else: the component
\* mapping of every entity, the registry and the entity's engine reference
\* stay as they were and nothing is published.  removeEntity of a
\* registered id deletes the entry, publishes entity:removed once and calls
\* no destroy (the component mapping stays as it was); of another id it
\* returns false and does nothing.
C19_Step ==
  /\ lastOp'.op = "destroy" =>
       /\ lastOp'.ret = "undefined"
       /\ Len(calls') = Len(WithDestroy(lastOp'.id))
       /\ \A k \in 1..Len(calls') :
            /\ calls'[k].ev = "destroy"
            /\ calls'[k].who = lastOp'.id
            /\ calls'[k].what = WithDestroy(lastOp'.id)[k].name
       /\ components' = components
       /\ UNCHANGED << entities, engineRef, active, sceneEntities, events >>
  /\ lastOp'.op = "removeEntity" =>
       IF lastOp'.id \in Range(entities)
       THEN /\ lastOp'.ret = "true"
            /\ entities' = SelectSeq(entities, LAMBDA x : x # lastOp'.id)
            /\ Len(calls') = 1
            /\ calls'[1].ev = "emit"
            /\ calls'[1].what = "entity:removed"
            /\ calls'[1].who = lastOp'.id
            /\ components' = components
       ELSE /\ lastOp'.ret = "false"
            /\ calls' = << >>
            /\ UNCHANGED << entities, engineRef, components >>
C19_DestroyAndRemove == [][C19_Step]_vars
\* A registered entity with a disabled component was destroyed, after its
\* component mapping was rewritten by removeComponent and addComponent:
\* the disabled component's destroy ran, and the entity is still
\* registered and still owns its components.
C19_Witness ==
  /\ lastOp.op = "destroy"
  /\ lastOp.id \in Range(entities)
  /\ components[lastOp.id] # Components(lastOp.id)
  /\ Len(components[lastOp.id]) = Len(Components(lastOp.id))
  /\ \E k \in 1..Len(components[lastOp.id]) :
       /\ ~components[lastOp.id][k].enabled
       /\ \E p \in At({"destroy"}) : calls[p].what = components[lastOp.id][k].name

\* C20: the host never holds more than one pending frame callback,
\* whatever the order of start, stop and the frames; a start made while
\* the engine is running schedules nothing and publishes nothing.
C20_Step ==
  /\ scheduled' <= 1
  /\ lastOp'.op = "start" /\ isRunning =>
       /\ scheduled' = scheduled
       /\ \A p \in 1..Len(calls') : calls'[p].ev # "emit"
C20_OneFrameChain == [][C20_Step]_vars

\* C21: after a loadScene no entity that the unloaded scene destroyed is
\* still in the engine's registry (where a later frame would update it).
C21_Step ==
  lastOp'.op = "loadScene" =>
    \A p \in EntriesOf("destroy") : calls'[p].who \notin Range(entities')
C21_DestroyedLeaveRegistry == [][C21_Step]_vars

\* C22: the entity:added events minus the entity:removed events account
\* for the registry: each call changes the number of registered entities
\* by the number of entity:added it published minus the number of
\* entity:removed, and an entity that left the registry was announced by
\* an entity:removed carrying it.
C22_Step ==
  /\ Len(entities') - Len(entities) =
       Cardinality(EmitsOf("entity:added")) - Cardinality(EmitsOf("entity:removed"))
  /\ \A e \in Range(entities) \ Range(entities') :
       \E p \in EmitsOf("entity:removed") : calls'[p].who = e
C22_EventsAccount == [][C22_Step]_vars
=============================================================================
